---- MODULE Spec2Model ----
(***************************************************************************)
(* Model of src/main.cpp: a single-process ledger that stores transfers    *)
(* between accounts as a vector of proof-of-work blocks.                   *)
(*                                                                         *)
(* Widths.  The program works on 32-bit `unsigned` words hashed byte by    *)
(* byte.  Here a byte has ByteBits bits and a word has WordBytes bytes, so *)
(* that every word value, every nonce and every digest can be enumerated.  *)
(* All arithmetic on words is modulo U32 == 2^(ByteBits*WordBytes), like   *)
(* the program's arithmetic is modulo 2^32; (unsigned)-1 is UMAX.          *)
(***************************************************************************)
EXTENDS Integers, Sequences, FiniteSets, TLC

VARIABLES blockVector,   \* std::vector<Block> blockVector
          blockCounter,  \* static unsigned blockCounter of generateBlock
          call,          \* the last call of sendAmount: arguments, result
          before,        \* blockVector as it was when that call started
          hung,          \* a mining loop of the last call never ends
          script,        \* the calls of sendAmount main is written to make
          pc,            \* how many of them main has made
          mined,         \* a call of hashBlock on its own: threshold, result
          ledger         \* the account-to-balance map run beside the chain

vars == <<blockVector, blockCounter, call, before, hung, script, pc, mined,
          ledger>>

---------------------------------------------------------------------------
(* Bounds of the model *)

ByteBits == 4      \* bits of a byte of the model (8 in the program)
WordBytes == 2     \* bytes of an `unsigned` of the model (4 in the program)
MaxCounter == 7    \* sendAmount is not called once blockCounter exceeds this

BYTE == 2^ByteBits
U32 == 2^(ByteBits * WordBytes)
UMAX == U32 - 1

\* the values of an `unsigned`
Word == 0..UMAX

Accounts == 0..2
Amounts == {0, 1, UMAX}
\* values an uninitialised `unsigned` member may hold
Garbage == {0, UMAX}

---------------------------------------------------------------------------
(* enum class TransactionType *)

INVALID == -1
GENERATE == 0
TRANSFER == 1
RECEIPT == 2

\* union Transaction: the tag and the four payload words that Blank.unused,
\* Transfer and Receipt overlay.
Transaction(type, w1, w2, w3, w4) == [type |-> type, data |-> <<w1, w2, w3, w4>>]

\* struct Transfer members
senderAccount(t) == t.data[1]
receiverAccount(t) == t.data[2]
transferPrevReceipt(t) == t.data[3]
amountOf(t) == t.data[4]

\* struct Receipt members
account(t) == t.data[1]
receiptPrevReceipt(t) == t.data[2]
prevTransfer(t) == t.data[3]
balanceOf(t) == t.data[4]

---------------------------------------------------------------------------
(* fnv_hash_1a_32 over the byte image of a Block *)

FNV_offset_basis == 40389   \* the low 16 bits of 0x811c9dc5
FNV_prime == 16777619       \* 0x01000193

RECURSIVE XorBits(_, _, _)
XorBits(a, b, n) ==
    IF n = 0 THEN 0
    ELSE ((a + b) % 2) + 2 * XorBits(a \div 2, b \div 2, n - 1)

\* a ^ b for two bytes, tabulated
XorTable == [a \in 0..(BYTE - 1) |-> [b \in 0..(BYTE - 1) |-> XorBits(a, b, ByteBits)]]

\* h ^ p[i] : the byte is xored into the low byte of h
Xor(h, b) == (h - (h % BYTE)) + XorTable[h % BYTE][b]

\* one round of the loop: h = (h ^ p[i]) * 0x01000193
Round(h, b) == (Xor(h, b) * (FNV_prime % U32)) % U32

\* the rounds over the n bytes of word w, least significant byte first
RECURSIVE Rounds(_, _, _)
Rounds(h, w, n) ==
    IF n > 0 /\ h \in Word
    THEN Rounds(Round(h, w % BYTE), w \div BYTE, n - 1)
    ELSE h

\* the loop of fnv_hash_1a_32 over the bytes of words ws[i..], from state h
RECURSIVE Fold(_, _, _)
Fold(h, ws, i) ==
    IF i <= Len(ws) /\ h \in Word
    THEN Fold(Rounds(h, ws[i], WordBytes), ws, i + 1)
    ELSE h

fnv_hash_1a_32(ws) == Fold(FNV_offset_basis % U32, ws, 1)

\* The object representation of a Block, member by member, up to the
\* nonce: index, prevHash, timestamp (two words), transaction (tag and
\* four payload words).
Fixed(block) ==
    <<block.index, block.prevHash, block.timestamp, 0,
      block.transaction.type % U32,
      block.transaction.data[1], block.transaction.data[2],
      block.transaction.data[3], block.transaction.data[4]>>

Image(block) == Fixed(block) \o <<block.nonce, block.threshold>>

\* fnv_hash_1a_32(&block, sizeof(Block))
Digest(block) == fnv_hash_1a_32(Image(block))

---------------------------------------------------------------------------
(* Transaction builders *)

\* generateBlank: the tag is INVALID, the payload is the 16 bytes of data
generateBlank(data) == Transaction(INVALID, data[1], data[2], data[3], data[4])

\* "Kayne Ruse 2021!" as four words (the first character of each group of
\* four, cut to the word width of the model)
GenesisData == <<75 % U32, 101 % U32, 115 % U32, 48 % U32>>

\* The reverse scan of blockVector for the last RECEIPT of an account:
\* positions of the matching blocks, the last of them is the one found.
receiptsOf(bv, acct) ==
    {i \in 1..Len(bv) : /\ bv[i].transaction.type = RECEIPT
                        /\ account(bv[i].transaction) = acct}

Last(S) == CHOOSE i \in S : \A j \in S : j <= i

\* balance and prevReceipt as the scan leaves them: (0, -1) when not found
lastReceipt(bv, acct) ==
    IF receiptsOf(bv, acct) = {}
    THEN [balance |-> 0, index |-> UMAX]
    ELSE [balance |-> balanceOf(bv[Last(receiptsOf(bv, acct))].transaction),
          index |-> bv[Last(receiptsOf(bv, acct))].index]

\* generateTransfer with the balance test turned into balance <= amount: a
\* sender can no longer spend all it has
generateTransfer_OffByOne(bv, sender, receiver, amount) ==
    IF sender = receiver \/ receiver = 0
    THEN Transaction(INVALID, 0, 0, 0, 0)
    ELSE LET found == IF sender # 0 THEN lastReceipt(bv, sender)
                      ELSE [balance |-> 0, index |-> UMAX]
         IN IF sender # 0 /\ found.balance <= amount
            THEN Transaction(INVALID, 0, 0, 0, 0)
            ELSE Transaction(IF sender = 0 THEN GENERATE ELSE TRANSFER,
                             sender, receiver, found.index, amount)

\* generateTransfer without the test of the sender's balance
generateTransfer_NoBalanceTest(bv, sender, receiver, amount) ==
    IF sender = receiver \/ receiver = 0
    THEN Transaction(INVALID, 0, 0, 0, 0)
    ELSE LET found == IF sender # 0 THEN lastReceipt(bv, sender)
                      ELSE [balance |-> 0, index |-> UMAX]
         IN Transaction(IF sender = 0 THEN GENERATE ELSE TRANSFER,
                        sender, receiver, found.index, amount)

generateTransfer(bv, sender, receiver, amount) ==
    IF sender = receiver \/ receiver = 0
    THEN Transaction(INVALID, 0, 0, 0, 0)
    ELSE LET found == IF sender # 0 THEN lastReceipt(bv, sender)
                      ELSE [balance |-> 0, index |-> UMAX]
         IN IF sender # 0 /\ found.balance < amount
            THEN Transaction(INVALID, 0, 0, 0, 0)
            ELSE Transaction(IF sender = 0 THEN GENERATE ELSE TRANSFER,
                             sender, receiver, found.index, amount)

\* generateReceipt that leaves the amount out of the new balance
generateReceipt_NoCredit(bv, transferBlock) ==
    IF transferBlock.transaction.type # GENERATE /\ transferBlock.transaction.type # TRANSFER
    THEN Transaction(INVALID, 0, 0, 0, 0)
    ELSE LET found == lastReceipt(bv, receiverAccount(transferBlock.transaction))
         IN Transaction(RECEIPT,
                        receiverAccount(transferBlock.transaction),
                        found.index,
                        transferBlock.index,
                        found.balance)

\* generateReceipt that takes a Transfer only, not a Generate
generateReceipt_TransferOnly(bv, transferBlock) ==
    IF transferBlock.transaction.type # TRANSFER
    THEN Transaction(INVALID, 0, 0, 0, 0)
    ELSE LET found == lastReceipt(bv, receiverAccount(transferBlock.transaction))
         IN Transaction(RECEIPT,
                        receiverAccount(transferBlock.transaction),
                        found.index,
                        transferBlock.index,
                        (found.balance + amountOf(transferBlock.transaction)) % U32)

generateReceipt(bv, transferBlock) ==
    IF transferBlock.transaction.type # GENERATE /\ transferBlock.transaction.type # TRANSFER
    THEN Transaction(INVALID, 0, 0, 0, 0)
    ELSE LET found == lastReceipt(bv, receiverAccount(transferBlock.transaction))
         IN Transaction(RECEIPT,
                        receiverAccount(transferBlock.transaction),
                        found.index,
                        transferBlock.index,
                        (found.balance + amountOf(transferBlock.transaction)) % U32)

\* The scan of generateReturn for the block whose index member equals the
\* transfer's prevReceipt; balance stays (unsigned)-1 when none matches.
returnLookup(bv, transferBlock) ==
    LET S == {i \in 1..Len(bv) :
                 bv[i].index = transferPrevReceipt(transferBlock.transaction)}
    IN IF S = {} THEN [found |-> FALSE, balance |-> UMAX]
       ELSE [found |-> TRUE, balance |-> balanceOf(bv[Last(S)].transaction)]

\* generateReturn that leaves the sender's balance as it found it
generateReturn_NoDebit(bv, transferBlock, receiptBlock) ==
    IF transferBlock.transaction.type # GENERATE /\ transferBlock.transaction.type # TRANSFER
    THEN Transaction(INVALID, 0, 0, 0, 0)
    ELSE IF receiptBlock.transaction.type # RECEIPT
    THEN Transaction(INVALID, 0, 0, 0, 0)
    ELSE IF transferPrevReceipt(transferBlock.transaction) = UMAX
    THEN Transaction(INVALID, 0, 0, 0, 0)
    ELSE Transaction(RECEIPT,
                     senderAccount(transferBlock.transaction),
                     senderAccount(transferBlock.transaction),
                     receiptBlock.index,
                     returnLookup(bv, transferBlock).balance)

generateReturn(bv, transferBlock, receiptBlock) ==
    IF transferBlock.transaction.type # GENERATE /\ transferBlock.transaction.type # TRANSFER
    THEN Transaction(INVALID, 0, 0, 0, 0)
    ELSE IF receiptBlock.transaction.type # RECEIPT
    THEN Transaction(INVALID, 0, 0, 0, 0)
    ELSE IF transferPrevReceipt(transferBlock.transaction) = UMAX
    THEN Transaction(INVALID, 0, 0, 0, 0)
    ELSE Transaction(RECEIPT,
                     senderAccount(transferBlock.transaction),
                     senderAccount(transferBlock.transaction),
                     receiptBlock.index,
                     (returnLookup(bv, transferBlock).balance
                        - amountOf(transferBlock.transaction)) % U32)

\* Clock::now(): generateBlock reads the clock once for each block; the
\* reading is the number of readings before it.
Now(counter) == counter % U32

\* What an uninitialised member holds until it is written or the block is
\* stored (see Stored).
Indeterminate == -1

\* generateBlock: index from the counter (which the caller advances), nonce
\* and threshold are not initialised.
generateBlock(transaction, prevHash, counter) ==
    [index |-> counter % U32,
     prevHash |-> prevHash,
     timestamp |-> Now(counter),
     transaction |-> transaction,
     nonce |-> Indeterminate,
     threshold |-> Indeterminate]

\* The blocks as blockVector holds them: a member that was never written
\* holds whatever the memory held, gN for a nonce and gT for a threshold.
Stored(bv, gN, gT) ==
    [i \in DOMAIN bv |->
        [bv[i] EXCEPT !.nonce = IF @ = Indeterminate THEN gN ELSE @,
                      !.threshold = IF @ = Indeterminate THEN gT ELSE @]]

---------------------------------------------------------------------------
(* Mining *)

\* The loop of hashBlock: the first nonce, counting up from 0, whose
\* digest is accepted; -1 when the counter wraps without one (the loop then
\* repeats the same nonces for ever).  h is the state of the hash after the
\* members before the nonce, which the loop does not change.
firstNonce(h, thr) ==
    IF \E n \in Word : Fold(h, <<n, thr>>, 1) <= thr
    THEN CHOOSE n \in Word :
            /\ Fold(h, <<n, thr>>, 1) <= thr
            /\ \A m \in 0..(n - 1) : Fold(h, <<m, thr>>, 1) > thr
    ELSE -1

\* The block and the value hashBlock returns once the loop has stopped at
\* nonce n (or never stops, n = -1).
leftAt(block, thr, n) ==
    IF n = -1
    THEN [block |-> [block EXCEPT !.threshold = thr, !.nonce = UMAX],
          hash |-> UMAX, hung |-> TRUE]
    ELSE [block |-> [block EXCEPT !.threshold = thr, !.nonce = n],
          hash |-> Digest([block EXCEPT !.threshold = thr, !.nonce = n]),
          hung |-> FALSE]

\* hashBlock: hash starts at (unsigned)-1, so the loop body is skipped when
\* thr is UMAX; otherwise the block is left with the first accepted nonce.
hashBlock(block, thr) ==
    IF UMAX <= thr
    THEN [block |-> [block EXCEPT !.threshold = thr], hash |-> UMAX, hung |-> FALSE]
    ELSE leftAt(block, thr, firstNonce(fnv_hash_1a_32(Fixed(block)), thr))

\* constexpr unsigned threshold = 1 << 20, a 2^-12 part of the word range;
\* here a quarter of the model's word range
threshold == U32 \div 4

---------------------------------------------------------------------------
(* sendAmount *)

NoCall == 1      \* call.ret while main is between two calls of sendAmount
NoReturn == 2    \* call.ret of a call that never returns

Outcome(ret, bv, counter, lookup) ==
    [ret |-> ret, blockVector |-> bv, blockCounter |-> counter, lookup |-> lookup]

NoLookup == [done |-> FALSE, found |-> FALSE, balance |-> 0]

\* What sendAmount reads in generateReturn's scan, for a transfer that
\* names a previous receipt.
lookupOf(bv, transfer) ==
    IF transferPrevReceipt(transfer.transaction) # UMAX
    THEN [done |-> TRUE,
          found |-> returnLookup(bv, transfer).found,
          balance |-> returnLookup(bv, transfer).balance]
    ELSE NoLookup

\* pushBlocks with the receipt pushed before the transfer
pushBlocks_ReceiptFirst(bv, ctr, transfer, receipt, ret) ==
    IF ret.transaction.type # INVALID
    THEN Outcome(0, bv \o <<receipt, transfer, ret>>, ctr + 3, lookupOf(bv, transfer))
    ELSE Outcome(0, bv \o <<receipt, transfer>>, ctr + 3, lookupOf(bv, transfer))

\* pushBlocks without the test of line 232: ret is pushed whatever its tag
pushBlocks_Always(bv, ctr, transfer, receipt, ret) ==
    Outcome(0, bv \o <<transfer, receipt, ret>>, ctr + 3, lookupOf(bv, transfer))

\* lines 227-236: the pushes, ret only when its transaction is valid
pushBlocks(bv, ctr, transfer, receipt, ret) ==
    IF ret.transaction.type # INVALID
    THEN Outcome(0, bv \o <<transfer, receipt, ret>>, ctr + 3, lookupOf(bv, transfer))
    ELSE Outcome(0, bv \o <<transfer, receipt>>, ctr + 3, lookupOf(bv, transfer))

\* line 225, with the receipt as hashBlock left it (mined2)
sendReturn(bv, ctr, transfer, receipt, mined2) ==
    IF mined2.hung THEN Outcome(NoReturn, bv, ctr + 2, lookupOf(bv, transfer))
    ELSE pushBlocks(bv, ctr, transfer, mined2.block,
                    generateBlock(generateReturn(bv, transfer, receipt),
                                  mined2.hash, ctr + 2))

\* lines 221-225, with the receipt block made at line 220
afterReceipt(bv, ctr, transfer, receipt) ==
    IF receipt.transaction.type = INVALID
    THEN Outcome(-2, bv, ctr + 2, NoLookup)
    ELSE sendReturn(bv, ctr, transfer, receipt, hashBlock(receipt, threshold))

\* line 220, with the transfer as hashBlock left it (mined1)
sendReceipt(bv, ctr, mined1) ==
    IF mined1.hung THEN Outcome(NoReturn, bv, ctr + 1, NoLookup)
    ELSE afterReceipt(bv, ctr, mined1.block,
                      generateBlock(generateReceipt(bv, mined1.block),
                                    mined1.hash, ctr + 1))

\* afterTransfer with the transfer block pushed before its tag is tested
afterTransfer_PushFirst(bv, ctr, transfer) ==
    IF transfer.transaction.type = INVALID
    THEN Outcome(-1, bv \o <<transfer>>, ctr + 1, NoLookup)
    ELSE sendReceipt(bv, ctr, hashBlock(transfer, threshold))

\* lines 216-220, with the transfer block made at line 215
afterTransfer(bv, ctr, transfer) ==
    IF transfer.transaction.type = INVALID
    THEN Outcome(-1, bv, ctr + 1, NoLookup)
    ELSE sendReceipt(bv, ctr, hashBlock(transfer, threshold))

\* sendTransfer with hashBlock working on a copy of blockVector.back(): the
\* stored tail keeps the nonce and threshold it had
sendTransfer_TailByValue(bv, ctr, sender, receiver, amount, tail) ==
    IF tail.hung
    THEN Outcome(NoReturn, bv, ctr, NoLookup)
    ELSE afterTransfer(bv, ctr,
                       generateBlock(generateTransfer(bv, sender, receiver, amount),
                                     tail.hash, ctr))

\* line 215, with blockVector.back() as hashBlock left it (tail): the tail
\* is mined in place before the transfer is looked at
sendTransfer(bv, ctr, sender, receiver, amount, tail) ==
    IF tail.hung
    THEN Outcome(NoReturn, [bv EXCEPT ![Len(bv)] = tail.block], ctr, NoLookup)
    ELSE afterTransfer([bv EXCEPT ![Len(bv)] = tail.block], ctr,
                       generateBlock(generateTransfer(bv, sender, receiver, amount),
                                     tail.hash, ctr))

\* The whole of sendAmount on chain bv and counter ctr.
sendAmount(bv, ctr, sender, receiver, amount) ==
    sendTransfer(bv, ctr, sender, receiver, amount,
                 hashBlock(bv[Len(bv)], threshold))

---------------------------------------------------------------------------
(* The state machine *)

\* main up to the first call: the genesis block is pushed as generateBlock
\* made it, not mined.
\* The ledger the chain is compared with: a balance for each account, all
\* 0 at the start.  A send is accepted when the accounts differ, the
\* receiver is not 0 and the sender is 0 or has the amount; it then adds
\* the amount to the receiver's balance modulo the word range and, for a
\* sender other than 0, takes it from the sender's.
NoLedger == [bal |-> [a \in Accounts |-> 0], accepted |-> FALSE]

RefAccepts(bal, s, r, a) == s # r /\ r # 0 /\ (s = 0 \/ bal[s] >= a)

RefSend(bal, s, r, a) ==
    IF RefAccepts(bal, s, r, a)
    THEN [bal |-> [x \in Accounts |->
                     IF x = r THEN (bal[r] + a) % U32
                     ELSE IF x = s /\ s # 0 THEN bal[s] - a
                     ELSE bal[x]],
          accepted |-> TRUE]
    ELSE [bal |-> bal, accepted |-> FALSE]

NotMining == [threshold |-> 0, done |-> FALSE, hash |-> 0]

Idle == [sender |-> 0, receiver |-> 0, amount |-> 0, ret |-> NoCall,
         lookup |-> NoLookup]

Init ==
    /\ \E gN \in Garbage, gT \in Garbage :
          blockVector = Stored(<<generateBlock(generateBlank(GenesisData),
                                               42 % U32, 0)>>, gN, gT)
    /\ blockCounter = 1
    /\ call = Idle
    /\ before = <<>>
    /\ hung = FALSE
    /\ script = <<>>
    /\ pc = 0
    /\ mined = NotMining
    /\ ledger = NoLedger

\* The state when a call of sendAmount with outcome out has returned
Returned(sender, receiver, amount, out) ==
    /\ blockVector' \in {Stored(out.blockVector, gN, gT) :
                            gN \in Garbage, gT \in Garbage}
    /\ blockCounter' = out.blockCounter
    /\ call' = [sender |-> sender, receiver |-> receiver,
                amount |-> amount, ret |-> out.ret, lookup |-> out.lookup]
    /\ before' = blockVector
    /\ hung' = (out.ret = NoReturn)
    /\ ledger' = RefSend(ledger.bal, sender, receiver, amount)

\* main calls sendAmount(sender, receiver, amount)
SendAmount(sender, receiver, amount) ==
    /\ call.ret = NoCall
    /\ blockCounter <= MaxCounter
    /\ Returned(sender, receiver, amount,
                sendAmount(blockVector, blockCounter, sender, receiver, amount))
    /\ UNCHANGED <<script, pc, mined>>

\* main drops the value the call returned and goes on to its next statement
Discard ==
    /\ call.ret \in {0, -1, -2}
    /\ call' = Idle
    /\ before' = <<>>
    /\ ledger' = [ledger EXCEPT !.accepted = FALSE]
    /\ UNCHANGED <<blockVector, blockCounter, hung, script, pc, mined>>

Next ==
    \/ \E sender \in Accounts, receiver \in Accounts, amount \in Amounts :
          SendAmount(sender, receiver, amount)
    \/ Discard

Spec == Init /\ [][Next]_vars

---------------------------------------------------------------------------
(* main as it is written: a fixed list of calls *)

\* a mints sendAmount(0, 1, 50), then b calls sendAmount(1, 1, 50), then c
\* calls sendAmount(1, 2, 75), the amounts cut to the word width
Calls(a, b, c) ==
    [i \in 1..(a + b + c) |->
        IF i <= a THEN <<0, 1, 50 % U32>>
        ELSE IF i <= a + b THEN <<1, 1, 50 % U32>>
        ELSE <<1, 2, 75 % U32>>]

\* lines 246-257: four calls of each
MainScript == Calls(4, 4, 4)

\* main's list and the lists that repeat its second and third call less
\* often
Scripts == {Calls(4, b, c) : b \in 1..4, c \in 3..4}

MainInit ==
    /\ \E gN \in Garbage, gT \in Garbage :
          blockVector = Stored(<<generateBlock(generateBlank(GenesisData),
                                               42 % U32, 0)>>, gN, gT)
    /\ blockCounter = 1
    /\ call = Idle
    /\ before = <<>>
    /\ hung = FALSE
    /\ script \in Scripts
    /\ pc = 0
    /\ mined = NotMining
    /\ ledger = NoLedger

\* main makes its next call
MainCall ==
    /\ call.ret = NoCall
    /\ pc < Len(script)
    /\ Returned(script[pc + 1][1], script[pc + 1][2], script[pc + 1][3],
                sendAmount(blockVector, blockCounter, script[pc + 1][1],
                           script[pc + 1][2], script[pc + 1][3]))
    /\ pc' = pc + 1
    /\ UNCHANGED <<script, mined>>

MainNext == MainCall \/ Discard

MainSpec == MainInit /\ [][MainNext]_vars

---------------------------------------------------------------------------
(* The program after so many calls that blockCounter is about to wrap *)

\* blockCounter++ is unsigned: after U32 blocks built it is 0 again.  A
\* rejected call, sendAmount(1, 1, 0) for one, builds one block and leaves
\* a chain of the mined genesis block alone, so main reaches this state,
\* LateBy blocks before the wrap, by making that call over and over.
LateBy == 4

LateInit ==
    /\ blockVector = sendAmount(<<generateBlock(generateBlank(GenesisData),
                                                42 % U32, 0)>>,
                                1, 1, 1, 0).blockVector
    /\ blockCounter = U32 - LateBy
    /\ call = Idle
    /\ before = <<>>
    /\ hung = FALSE
    /\ script = <<>>
    /\ pc = 0
    /\ mined = NotMining
    /\ ledger = NoLedger

\* main calls sendAmount(sender, receiver, amount)
LateCall(sender, receiver, amount) ==
    /\ call.ret = NoCall
    /\ blockCounter < U32 + LateBy
    /\ Returned(sender, receiver, amount,
                sendAmount(blockVector, blockCounter, sender, receiver, amount))
    /\ UNCHANGED <<script, pc, mined>>

LateNext ==
    \/ \E sender \in Accounts, receiver \in Accounts, amount \in Amounts :
          LateCall(sender, receiver, amount)
    \/ Discard

LateSpec == LateInit /\ [][LateNext]_vars

---------------------------------------------------------------------------
(* hashBlock on its own, on one block and with any threshold *)

\* blocks as generateBlock makes them, nonce and threshold not yet written
Blocks ==
    {Stored(<<generateBlock(t, p, c)>>, gN, gT)[1] :
        t \in {generateBlank(GenesisData),
               Transaction(GENERATE, 0, 1, UMAX, 1),
               Transaction(RECEIPT, 1, UMAX, 1, 1)},
        p \in {0, 42 % U32}, c \in 0..3, gN \in Garbage, gT \in Garbage}

Thresholds == {0, 1, 2, threshold, UMAX - 1, UMAX}

MineInit ==
    /\ blockVector \in {<<b>> : b \in Blocks}
    /\ blockCounter = 1
    /\ call = Idle
    /\ before = <<>>
    /\ hung = FALSE
    /\ script = <<>>
    /\ pc = 0
    /\ mined \in {[threshold |-> t, done |-> FALSE, hash |-> 0] : t \in Thresholds}
    /\ ledger = NoLedger

\* The state when hashBlock(blockVector.back(), mined.threshold) has given
\* out, or has gone into a loop without end
Hashed(out) ==
    /\ blockVector' = <<out.block>>
    /\ before' = blockVector
    /\ hung' = out.hung
    /\ mined' = [mined EXCEPT !.done = TRUE, !.hash = out.hash]
    /\ UNCHANGED <<blockCounter, call, script, pc, ledger>>

HashBlock ==
    /\ ~mined.done
    /\ Hashed(hashBlock(blockVector[1], mined.threshold))

MineNext == HashBlock

MineSpec == MineInit /\ [][MineNext]_vars

---------------------------------------------------------------------------
(* Vocabulary of the properties *)

\* the balance of an account in a chain: that of its latest Receipt, 0 if
\* it has none
Balance(chain, acct) == lastReceipt(chain, acct).balance

\* a call of sendAmount has just returned; Rejected: with -1 or -2
HasReturned == call.ret \in {0, -1, -2}
Rejected == call.ret \in {-1, -2}
Accepted == call.ret = 0

\* the blocks the last call appended
Appended == SubSeq(blockVector, Len(before) + 1, Len(blockVector))

\* no mining loop of the model runs for ever
NeverHung == ~hung

---------------------------------------------------------------------------
(* C1: a rejected send (result -1 or -2) leaves the chain exactly as it    *)
(* was before the call, the tail block's nonce and threshold included.     *)
(* The code mines blockVector.back() in place before it looks at the       *)
(* transfer, so this fails.                                                *)
C1_RejectedLeavesChain == Rejected => blockVector = before

(* C2: a rejected send leaves the number of blocks unchanged. *)
C2_RejectedKeepsLength == Rejected => Len(blockVector) = Len(before)

\* a send was rejected on a chain that earlier sends had extended
C2_Witness == Rejected /\ Len(before) >= 3 /\ Len(blockVector) = Len(before)

(* C3: after an accepted send(s, r, a) with s # 0 the balance of s is      *)
(* exactly a less and the balance of r exactly a more than before.  The    *)
(* receiver's balance is computed modulo 2^32 without a check, so this     *)
(* fails when it wraps.                                                    *)
C3_Conservation ==
    (Accepted /\ call.sender # 0) =>
        /\ Balance(blockVector, call.sender)
              = Balance(before, call.sender) - call.amount
        /\ Balance(blockVector, call.receiver)
              = Balance(before, call.receiver) + call.amount

(* C4: after an accepted mint send(0, r, a) the balance of r is a more     *)
(* than before, and exactly two blocks are appended, a Generate and the    *)
(* Receipt of r; no Receipt of account 0 appears.  The balance wraps       *)
(* modulo 2^32, so the first part fails.                                   *)
C4_Mint ==
    (Accepted /\ call.sender = 0) =>
        /\ Balance(blockVector, call.receiver)
              = Balance(before, call.receiver) + call.amount
        /\ Len(Appended) = 2
        /\ Appended[1].transaction.type = GENERATE
        /\ Appended[2].transaction.type = RECEIPT
        /\ account(Appended[2].transaction) = call.receiver
        /\ receiptsOf(blockVector, 0) = {}

(* C5: send is rejected with -1 exactly when sender = receiver, or         *)
(* receiver = 0, or sender # 0 and the sender's balance is below the       *)
(* amount; in every other case it returns 0 and the transfer block is a    *)
(* Generate for sender 0 and a Transfer otherwise.                         *)
RejectionRule(chain, sender, receiver, amount) ==
    \/ sender = receiver
    \/ receiver = 0
    \/ sender # 0 /\ Balance(chain, sender) < amount

C5_RejectionRule ==
    /\ call.ret # NoReturn
    /\ HasReturned =>
          /\ call.ret = -1
                <=> RejectionRule(before, call.sender, call.receiver, call.amount)
          /\ call.ret # -1 =>
                /\ call.ret = 0
                /\ Len(Appended) >= 1
                /\ Appended[1].transaction.type
                      = IF call.sender = 0 THEN GENERATE ELSE TRANSFER
                /\ senderAccount(Appended[1].transaction) = call.sender
                /\ receiverAccount(Appended[1].transaction) = call.receiver
                /\ amountOf(Appended[1].transaction) = call.amount

\* a send was rejected only because the sender, who has a Receipt, lacks
\* the funds
C5_Witness ==
    /\ call.ret = -1
    /\ call.sender # 0 /\ call.receiver # 0 /\ call.sender # call.receiver
    /\ receiptsOf(before, call.sender) # {}
    /\ Balance(before, call.sender) < call.amount

(* C6: chain[i].index = i at every position i of the chain.  The counter   *)
(* also advances for blocks that are never pushed (the block of a rejected *)
(* transfer, the invalid return block of a mint), so this fails.           *)
C6_IndexIsPosition ==
    \A i \in 1..Len(blockVector) : blockVector[i].index = i - 1

(* C7: for every position i >= 1, chain[i].prev_hash is the digest of      *)
(* chain[i-1] with the nonce and threshold chain[i-1] stores.              *)
C7_PrevHashLinks ==
    \A i \in 2..Len(blockVector) :
        blockVector[i].prevHash = Digest(blockVector[i - 1])

\* a return Receipt, pushed before it was mined, has got a successor that
\* a later send linked to it
C7_Witness ==
    \E i \in 3..(Len(blockVector) - 1) :
        /\ blockVector[i].transaction.type = RECEIPT
        /\ blockVector[i - 1].transaction.type = RECEIPT
        /\ blockVector[i + 1].transaction.type \in {GENERATE, TRANSFER}
        /\ blockVector[i + 1].prevHash = Digest(blockVector[i])

(* C8: every block of the chain, the genesis block and the tail block      *)
(* included, has digest <= its stored threshold under its stored nonce.    *)
(* The genesis block and every return Receipt are pushed with nonce and    *)
(* threshold uninitialised, so this fails.                                 *)
C8_EveryBlockMined ==
    \A i \in 1..Len(blockVector) :
        Digest(blockVector[i]) <= blockVector[i].threshold

(* C9: a Receipt at position i whose prev_receipt is j # U32_MAX has j < i *)
(* and chain[j] a Receipt of the same account.  A return Receipt stores    *)
(* the sender's account number as prev_receipt, so this fails.             *)
C9_PrevReceiptLinks ==
    \A i \in 1..Len(blockVector) :
        (/\ blockVector[i].transaction.type = RECEIPT
         /\ receiptPrevReceipt(blockVector[i].transaction) # UMAX) =>
            LET j == receiptPrevReceipt(blockVector[i].transaction)
            IN /\ j < i - 1
               /\ j + 1 \in 1..Len(blockVector)
               /\ blockVector[j + 1].transaction.type = RECEIPT
               /\ account(blockVector[j + 1].transaction)
                     = account(blockVector[i].transaction)

C11_AppendOnly ==
    HasReturned =>
        /\ Len(before) <= Len(blockVector)
        /\ SubSeq(blockVector, 1, Len(before)) = before

(* C12: no block at a position >= 1 carries the INVALID tag; only the      *)
(* genesis block, at position 0, may.                                      *)
C12_InvalidOnlyGenesis ==
    \A i \in 2..Len(blockVector) : blockVector[i].transaction.type # INVALID

\* a mint has been accepted, its INVALID return block dropped, on a chain
\* whose genesis block carries the INVALID tag
C12_Witness ==
    /\ Accepted /\ call.sender = 0
    /\ Len(Appended) = 2
    /\ blockVector[1].transaction.type = INVALID
    /\ generateReturn(before, Appended[1], Appended[2]).type = INVALID

(* C13: from the genesis chain, the four mints send(0,1,50) are accepted   *)
(* and give length 9 and balance(1) = 200; every send(1,1,50) is rejected  *)
(* and the length stays 9; the first send(1,2,75) is accepted and gives    *)
(* length 12, balance(2) = 75, balance(1) = 125; the second is accepted    *)
(* and gives length 15, balance(1) = 50, balance(2) = 150; a further one   *)
(* is rejected and the length stays 15.                                    *)
Transfers == pc - (Len(script) - Cardinality({i \in DOMAIN script : script[i][2] = 2}))

C13_Script ==
    /\ pc \in 1..4 =>
          /\ HasReturned => Accepted
          /\ Len(blockVector) = 1 + 2 * pc
          /\ Balance(blockVector, 1) = (50 * pc) % U32
    /\ (pc > 4 /\ Transfers <= 0) =>
          /\ HasReturned => Rejected
          /\ Len(blockVector) = 9
          /\ Balance(blockVector, 1) = 200 % U32
    /\ Transfers = 1 =>
          /\ HasReturned => Accepted
          /\ Len(blockVector) = 12
          /\ Balance(blockVector, 2) = 75 % U32
          /\ Balance(blockVector, 1) = 125 % U32
    /\ Transfers = 2 =>
          /\ HasReturned => Accepted
          /\ Len(blockVector) = 15
          /\ Balance(blockVector, 1) = 50 % U32
          /\ Balance(blockVector, 2) = 150 % U32
    /\ Transfers >= 3 =>
          /\ HasReturned => Rejected
          /\ Len(blockVector) = 15

\* the list of the claim, four mints, one send(1,1,50), three send(1,2,75),
\* has been run to its end
C13_Witness ==
    /\ script = Calls(4, 1, 3) /\ pc = Len(script)
    /\ Rejected /\ Len(blockVector) = 15

C15_PrevTransferLinks ==
    \A i \in 1..Len(blockVector) :
        blockVector[i].transaction.type = RECEIPT =>
            \E j \in 1..Len(blockVector) :
                /\ blockVector[j].index = prevTransfer(blockVector[i].transaction)
                /\ blockVector[j].transaction.type \in {GENERATE, TRANSFER}
                /\ account(blockVector[i].transaction)
                      \in {receiverAccount(blockVector[j].transaction),
                           senderAccount(blockVector[j].transaction)}

(* C16: for every block and every threshold, the largest one included,     *)
(* hashBlock, when it returns, leaves block.threshold = threshold and      *)
(* block.nonce = the smallest nonce whose digest is <= threshold, changes  *)
(* no other member, and returns the digest of the block as it leaves it,   *)
(* which is <= threshold.  With threshold (unsigned)-1 the loop body never *)
(* runs: the nonce is not written and (unsigned)-1 is returned; this fails.*)
C16_FirstNonce ==
    (mined.done /\ ~hung) =>
        LET block == blockVector[1]
            at(n) == Digest([block EXCEPT !.nonce = n])
        IN /\ block.threshold = mined.threshold
           /\ at(block.nonce) <= mined.threshold
           /\ \A m \in 0..(block.nonce - 1) : at(m) > mined.threshold
           /\ [block EXCEPT !.nonce = 0, !.threshold = 0]
                 = [before[1] EXCEPT !.nonce = 0, !.threshold = 0]
           /\ mined.hash = Digest(block)
           /\ mined.hash <= mined.threshold

(* C17: for every block and every threshold other than 0 the loop of       *)
(* hashBlock ends.  The digests of one block under all nonces do not cover *)
(* every value, so a small threshold can be met by none; this fails.       *)
C17_MiningEnds ==
    (mined.done /\ mined.threshold # 0) => ~hung

(* C18: sendAmount never returns -2: a transfer that is not INVALID is a   *)
(* Generate or a Transfer, and generateReceipt then never gives INVALID.   *)
C18_NoRejectedReceipt ==
    /\ call.ret # -2
    /\ HasReturned =>
          LET transfer == generateTransfer(before, call.sender, call.receiver,
                                           call.amount)
          IN transfer.type # INVALID =>
                /\ transfer.type \in {GENERATE, TRANSFER}
                /\ generateReceipt(before,
                                   generateBlock(transfer, 0, blockCounter)).type
                      = RECEIPT

\* a mint and a transfer have both gone past the test of the receipt
C18_Witness ==
    /\ Accepted
    /\ Appended[1].transaction.type = TRANSFER
    /\ Appended[2].transaction.type = RECEIPT
    /\ \E i \in 1..Len(before) : before[i].transaction.type = GENERATE

C20_IndexesIncrease ==
    /\ \A i, j \in 1..Len(blockVector) :
          i < j => blockVector[i].index < blockVector[j].index
    /\ (Accepted /\ call.lookup.done) =>
          /\ Cardinality({i \in 1..Len(before) :
                 before[i].index = transferPrevReceipt(Appended[1].transaction)}) = 1
          /\ receiptsOf(before, call.sender) # {}
          /\ before[Last(receiptsOf(before, call.sender))].index
                = transferPrevReceipt(Appended[1].transaction)

====
